---- MODULE Spec2Model ----
(***************************************************************************)
(* Feder-Masse-Kette.py: a chain of N point masses joined by damped        *)
(* springs between a kinematic left anchor and a static wall, driven by a  *)
(* pygame frame loop (MassSpringChain.run).                                *)
(*                                                                         *)
(* Units of the model (all quantities are integers):                       *)
(*   length of the configuration   centimetres   (L0_M = 0.1 m = 10)       *)
(*   positions                     1/100 pixel   (m_to_px(1 cm) = 50)      *)
(*   time                          1/120 second  (self.dt = 1)             *)
(*   velocity                      1/100 pixel per integration step        *)
(*   damping factor                1/1000        (SPACE_DAMPING = 1000)    *)
(* The program computes in binary floating point; the model computes the   *)
(* same expressions exactly on these grids, but for one place: the         *)
(* comparison time_accum >= impulse_time_s of line 296. Both sides are     *)
(* rounded sums, and where the exact sums are equal the rounded ones       *)
(* compare either way (3 increments of 1/60 s reach the literal 0.05,      *)
(* 15 increments stay below 0.25 and 300 stay below 5.0), so at equality   *)
(* on the grid the model allows both outcomes (Reaches).                   *)
(*                                                                         *)
(* One frame of run() is: every queued event through _process_events (one  *)
(* Key... action per event, in queue order), then the action Tick (lines   *)
(* 293-301). Events that match no branch leave the state unchanged.        *)
(***************************************************************************)
EXTENDS Integers, Sequences, FiniteSets, TLC

\* ------------------------------------------------------------------ bounds
MaxN == 2
MaxTicks == 4
MaxEvents == 2
MaxCoord == 15000
MaxVel == 100000
MaxLowerings == 3

\* ------------------------------------------------- configurable parameters
MASS_G == 50
L0_M == 10
LV_M == 12
PIXELS_PER_METER == 50
SPRING_STIFFNESS == 1200
SPRING_DAMPING == 8
SPACE_DAMPING == 1000
IMPULSE_TIME_S == 30
ANCHOR_LIFT_M == 50
HEIGHT == 60000
START_X == 10000
StepsPerSecond == 120
PhysicsStepsPerFrame == 2
UnitScale == 1000

m_to_px(x_m) == x_m * PIXELS_PER_METER

Dt == 1

gravity_presets == << <<0, 0>>, <<0, 981 * PIXELS_PER_METER>> >>

\* The configurations the chain is constructed with ("Konfigurierbare
\* Parameter", lines 23-49). The first is the one the source ships. The
\* others set damping, impulse time and lift to values that the keys 1-6
\* also reach from the shipped ones before the first frame's physics, next
\* to the ends of their ranges; the second also sets LV_M to L0_M (no
\* pre-tension), which only an edit of the configuration does. N_MASSES
\* (150 in the source) is n_masses, drawn from 1..MaxN.
Configs ==
    { [lv |-> LV_M, damping |-> SPACE_DAMPING, impulse_time |-> IMPULSE_TIME_S,
       lift |-> ANCHOR_LIFT_M],
      [lv |-> L0_M, damping |-> SPACE_DAMPING, impulse_time |-> 6, lift |-> 5],
      [lv |-> LV_M, damping |-> 9, impulse_time |-> 594, lift |-> 195] }

VARIABLES
    n_masses, lv_m,
    running, exited,
    gravity_index, space_gravity, damping, space_damping,
    impulse_time_s, anchor_lift_m,
    left_anchor, left_anchor_base, right_anchor_pos, bodies, springs,
    time_accum, impulse_applied,
    ticks, frames, events, last

config == <<n_masses, lv_m>>
params == <<gravity_index, space_gravity, damping, space_damping,
            impulse_time_s, anchor_lift_m>>
chain == <<left_anchor, left_anchor_base, right_anchor_pos, bodies, springs>>
vars == <<n_masses, lv_m, running, exited, gravity_index, space_gravity,
          damping, space_damping, impulse_time_s, anchor_lift_m, left_anchor,
          left_anchor_base, right_anchor_pos, bodies, springs, time_accum,
          impulse_applied, ticks, frames, events, last>>

\* ------------------------------------------------------------- _build_chain
rest_px == m_to_px(L0_M)
span_px(lv) == m_to_px(lv)
baseline_y == HEIGHT \div 2
wall_x_AtLastBody(n, lv) == START_X + n * span_px(lv)

wall_x(n, lv) == START_X + (n + 1) * span_px(lv)

LeftAnchorBody_Dynamic ==
    [body_type |-> "DYNAMIC", position |-> <<START_X, baseline_y>>,
     velocity |-> <<0, 0>>]

LeftAnchorBody == [body_type |-> "KINEMATIC", position |-> <<START_X, baseline_y>>,
                   velocity |-> <<0, 0>>]

MassBody(i, lv) == [body_type |-> "DYNAMIC",
                    position |-> <<START_X + (i + 1) * span_px(lv), baseline_y>>,
                    velocity |-> <<0, 0>>]

\* bodies[i] of the source is BuildBodies(n, lv)[i + 1]
BuildBodies(n, lv) == [j \in 1..n |-> MassBody(j - 1, lv)]

LeftEnd == [kind |-> "left_anchor", index |-> 0]
BodyEnd(i) == [kind |-> "body", index |-> i]
RightEnd == [kind |-> "right_anchor", index |-> 0]

DampedSpring(a, b) == [a |-> a, b |-> b, rest_length |-> rest_px,
                       stiffness |-> SPRING_STIFFNESS, damping |-> SPRING_DAMPING]

BuildSprings_NoWallSpring(n) ==
    <<DampedSpring(LeftEnd, BodyEnd(0))>>
    \o [j \in 1..(n - 1) |-> DampedSpring(BodyEnd(j - 1), BodyEnd(j))]

\* springs[i] of the source is BuildSprings(n)[i + 1]
BuildSprings(n) ==
    <<DampedSpring(LeftEnd, BodyEnd(0))>>
    \o [j \in 1..(n - 1) |-> DampedSpring(BodyEnd(j - 1), BodyEnd(j))]
    \o <<DampedSpring(BodyEnd(n - 1), RightEnd)>>

RightAnchorPos(n, lv) == <<wall_x(n, lv), baseline_y>>

\* ------------------------------------------------ the integrator (one step)
Abs(x) == IF x < 0 THEN -x ELSE x

\* The integer square root, by bisection of 0..46340.
ISqrt(n) ==
    LET ISqrtIn[m \in Nat, lo \in Nat, hi \in Nat] ==
            IF lo >= hi THEN lo
            ELSE LET mid == (lo + hi + 1) \div 2
                 IN IF mid * mid <= m THEN ISqrtIn[m, mid, hi]
                    ELSE ISqrtIn[m, lo, mid - 1]
    IN ISqrtIn[n, 0, 46340]

\* The body an endpoint of a spring stands for.
EndBody(e, la, bs, rpos) ==
    IF e.kind = "left_anchor" THEN la
    ELSE IF e.kind = "body" THEN bs[e.index + 1]
    ELSE [body_type |-> "STATIC", position |-> rpos, velocity |-> <<0, 0>>]

\* Velocity an endpoint contributes to the damping term: anchors contribute 0.
EndVelocity(b) == IF b.body_type = "DYNAMIC" THEN b.velocity ELSE <<0, 0>>

\* The velocity change, per step, that spring s gives its endpoint a (its
\* endpoint b gets the opposite): (k x + c vrel) / m * dt along the axis.
SpringPull(s, la, bs, rpos) ==
    LET p1 == EndBody(s.a, la, bs, rpos).position
        p2 == EndBody(s.b, la, bs, rpos).position
        v1 == EndVelocity(EndBody(s.a, la, bs, rpos))
        v2 == EndVelocity(EndBody(s.b, la, bs, rpos))
        dx == p2[1] - p1[1]
        dy == p2[2] - p1[2]
        AtLength[len \in Nat] ==
            LET ux == IF len = 0 THEN UnitScale ELSE (dx * UnitScale) \div len
                uy == IF len = 0 THEN 0 ELSE (dy * UnitScale) \div len
                x == len - s.rest_length
                vrel == ((v2[1] - v1[1]) * ux + (v2[2] - v1[2]) * uy) \div UnitScale
                f == s.stiffness * x + s.damping * vrel * StepsPerSecond
                acc == f \div ((MASS_G * StepsPerSecond * StepsPerSecond) \div UnitScale)
            IN <<(acc * ux) \div UnitScale, (acc * uy) \div UnitScale>>
    IN AtLength[ISqrt(dx * dx + dy * dy)]

RECURSIVE NetPull(_, _, _, _, _, _)
\* Sum over springs k..Len(sp) of the pull on endpoint e.
NetPull(e, k, sp, la, bs, rpos) ==
    IF k > Len(sp) THEN <<0, 0>>
    ELSE LET Sum[rest \in Int \X Int, p \in Int \X Int] ==
                 IF sp[k].a = e THEN <<rest[1] + p[1], rest[2] + p[2]>>
                 ELSE IF sp[k].b = e THEN <<rest[1] - p[1], rest[2] - p[2]>>
                 ELSE rest
         IN Sum[NetPull(e, k + 1, sp, la, bs, rpos), SpringPull(sp[k], la, bs, rpos)]

GravityPerStep(g) == <<g[1] \div (StepsPerSecond * StepsPerSecond),
                       g[2] \div (StepsPerSecond * StepsPerSecond)>>

\* Semi-implicit Euler for one body: only a DYNAMIC body is integrated.
Integrate(b, pull, g, damp) ==
    IF b.body_type # "DYNAMIC" THEN b
    ELSE LET gs == GravityPerStep(g)
             Pulled[p \in Int \X Int] ==
                 <<((b.velocity[1] + p[1] + gs[1]) * damp) \div UnitScale,
                   ((b.velocity[2] + p[2] + gs[2]) * damp) \div UnitScale>>
             Moving[v \in Int \X Int] ==
                 [b EXCEPT !.velocity = v,
                           !.position = <<b.position[1] + v[1], b.position[2] + v[2]>>]
         IN Moving[Pulled[pull]]

\* space.step(dt) on the chain: the new left anchor and bodies.
Step(la, bs, sp, rpos, g, damp) ==
    [left_anchor |-> Integrate(la, NetPull(LeftEnd, 1, sp, la, bs, rpos), g, damp),
     bodies |-> [j \in 1..Len(bs) |->
                   Integrate(bs[j], NetPull(BodyEnd(j - 1), 1, sp, la, bs, rpos), g, damp)]]

\* The fixed-point arithmetic above stays inside 32 bits while every point
\* is within MaxCoord of the chain's origin and slower than MaxVel.
BodyInRange(b) ==
    /\ Abs(b.position[1] - START_X) <= MaxCoord
    /\ Abs(b.position[2] - baseline_y) <= MaxCoord
    /\ Abs(b.velocity[1]) <= MaxVel
    /\ Abs(b.velocity[2]) <= MaxVel

InRange(la, bs) == BodyInRange(la) /\ \A j \in 1..Len(bs) : BodyInRange(bs[j])

\* ------------------------------------------------------------------ __init__
Init ==
    /\ n_masses \in 1..MaxN
    /\ \E c \in Configs :
         /\ lv_m = c.lv
         /\ damping = c.damping
         /\ space_damping = c.damping
         /\ impulse_time_s = c.impulse_time
         /\ anchor_lift_m = c.lift
         /\ bodies = BuildBodies(n_masses, c.lv)
         /\ right_anchor_pos = RightAnchorPos(n_masses, c.lv)
    /\ gravity_index = 0
    /\ space_gravity = gravity_presets[1]
    /\ left_anchor = LeftAnchorBody
    /\ left_anchor_base = LeftAnchorBody.position
    /\ springs = BuildSprings(n_masses)
    /\ running = TRUE
    /\ exited = FALSE
    /\ time_accum = 0
    /\ impulse_applied = FALSE
    /\ ticks = 0
    /\ frames = 0
    /\ events = 0
    /\ last = "init"

\* ------------------------------------------------ _apply_first_spring_impulse
\* The left anchor after the jump: up is the negative y direction.
ImpulsePosition(pos, lift_m) == <<pos[1], pos[2] - m_to_px(lift_m)>>

ApplyFirstSpringImpulse(la, lift_m) ==
    [la EXCEPT !.position = ImpulsePosition(la.position, lift_m)]

\* ------------------------------------------------------------ _process_events
\* One event is taken from the queue while the loop of run() is alive.
Event(name) ==
    /\ ~exited
    /\ events < MaxEvents
    /\ events' = events + 1
    /\ last' = name
    /\ UNCHANGED <<n_masses, lv_m, exited, frames>>

Quit ==
    /\ Event("quit")
    /\ UNCHANGED ticks
    /\ running' = FALSE
    /\ UNCHANGED <<params, chain, time_accum, impulse_applied>>

\* A toggle that counts up and stays at the last preset.
ToggleGravityIndex_Sticks(i) == IF i + 1 < Len(gravity_presets) THEN i + 1 ELSE i

ToggleGravityIndex(i) == (i + 1) % Len(gravity_presets)

KeyG ==
    /\ Event("g")
    /\ UNCHANGED ticks
    /\ gravity_index' = ToggleGravityIndex(gravity_index)
    /\ space_gravity' = gravity_presets[gravity_index' + 1]
    /\ UNCHANGED <<running, damping, space_damping, impulse_time_s, anchor_lift_m,
                   chain, time_accum, impulse_applied>>

Max(a, b) == IF a >= b THEN a ELSE b
Min(a, b) == IF a <= b THEN a ELSE b

DampingDown(d) == Max(0, d - 10)

DampingUp_ToOne(d) == Min(1000, d + 10)

DampingUp(d) == Min(999, d + 10)

Key1 ==
    /\ Event("1")
    /\ UNCHANGED ticks
    /\ damping' = DampingDown(damping)
    /\ space_damping' = damping'
    /\ UNCHANGED <<running, gravity_index, space_gravity, impulse_time_s,
                   anchor_lift_m, chain, time_accum, impulse_applied>>

Key2 ==
    /\ Event("2")
    /\ UNCHANGED ticks
    /\ damping' = DampingUp(damping)
    /\ space_damping' = damping'
    /\ UNCHANGED <<running, gravity_index, space_gravity, impulse_time_s,
                   anchor_lift_m, chain, time_accum, impulse_applied>>

LiftDown(l) == Max(0, l - 5)

LiftUp_Unclamped(l) == l + 5

LiftUp(l) == Min(200, l + 5)

Key3 ==
    /\ Event("3")
    /\ UNCHANGED ticks
    /\ anchor_lift_m' = LiftDown(anchor_lift_m)
    /\ UNCHANGED <<running, gravity_index, space_gravity, damping, space_damping,
                   impulse_time_s, chain, time_accum, impulse_applied>>

\* A handler that re-applied the new lift amount to an anchor already lifted.
Key4_Relifts ==
    /\ Event("4")
    /\ UNCHANGED ticks
    /\ anchor_lift_m' = LiftUp(anchor_lift_m)
    /\ left_anchor' =
         IF impulse_applied
         THEN ApplyFirstSpringImpulse([left_anchor EXCEPT !.position = left_anchor_base],
                                      anchor_lift_m')
         ELSE left_anchor
    /\ UNCHANGED <<running, gravity_index, space_gravity, damping, space_damping,
                   impulse_time_s, left_anchor_base, right_anchor_pos, bodies,
                   springs, time_accum, impulse_applied>>

Key4 ==
    /\ Event("4")
    /\ UNCHANGED ticks
    /\ anchor_lift_m' = LiftUp(anchor_lift_m)
    /\ UNCHANGED <<running, gravity_index, space_gravity, damping, space_damping,
                   impulse_time_s, chain, time_accum, impulse_applied>>

\* The upper limit of the trigger time, 5.0 s.
ImpulseTimeLimit == 600

ImpulseTimeDown(t) == Max(0, t - 6)
\* A trigger time with no upper limit.
ImpulseTimeUp_Unclamped(t) == t + 6

ImpulseTimeUp(t) == Min(ImpulseTimeLimit, t + 6)

\* The assignment of lines 221 and 224.
SetImpulseTime(t) ==
    /\ impulse_time_s' = t
    /\ UNCHANGED <<running, gravity_index, space_gravity, damping, space_damping,
                   anchor_lift_m, chain, time_accum, impulse_applied>>

Key5 ==
    /\ Event("5")
    /\ UNCHANGED ticks
    /\ SetImpulseTime(ImpulseTimeDown(impulse_time_s))

Key6 ==
    /\ Event("6")
    /\ UNCHANGED ticks
    /\ SetImpulseTime(ImpulseTimeUp(impulse_time_s))

\* Key i: the impulse now, unless it has been applied already.
ManualImpulseDue_Unguarded(applied) == TRUE

ManualImpulseDue(applied) == ~applied

KeyI ==
    /\ Event("i")
    /\ IF ManualImpulseDue(impulse_applied)
         THEN /\ left_anchor' = ApplyFirstSpringImpulse(left_anchor, anchor_lift_m)
              /\ impulse_applied' = TRUE
         ELSE UNCHANGED <<left_anchor, impulse_applied>>
    /\ UNCHANGED <<running, params, left_anchor_base, right_anchor_pos, bodies,
                   springs, time_accum, ticks>>

\* ------------------------------------------------------------------ _reset_sim
\* self.bodies = [], self.springs = []: _build_chain appends to the lists.
ResetList_Keeps(list) == list

ResetList(list) == <<>>

\* The new Space starts with gravity (0, 0) and damping 1.0; lines 236-237
\* give it the controller's current gravity selection and damping factor.
ResetSpaceGravity_Default(i) == <<0, 0>>

ResetSpaceGravity(i) == gravity_presets[i + 1]

ResetSpaceDamping_Default(d) == UnitScale

ResetSpaceDamping(d) == d

KeyR ==
    /\ Event("r")
    /\ space_gravity' = ResetSpaceGravity(gravity_index)
    /\ space_damping' = ResetSpaceDamping(damping)
    /\ left_anchor' = LeftAnchorBody
    /\ left_anchor_base' = LeftAnchorBody.position
    /\ right_anchor_pos' = RightAnchorPos(n_masses, lv_m)
    /\ bodies' = ResetList(bodies) \o BuildBodies(n_masses, lv_m)
    /\ springs' = ResetList(springs) \o BuildSprings(n_masses)
    /\ time_accum' = 0
    /\ impulse_applied' = FALSE
    /\ ticks' = 0
    /\ UNCHANGED <<running, gravity_index, damping, impulse_time_s, anchor_lift_m>>

\* --------------------------------------------------- run, lines 293-301
\* The elapsed time after this frame's increment.
TimeAfter_Always(t, applied) == t + Dt * PhysicsStepsPerFrame

TimeAfter(t, applied) == IF applied THEN t ELSE t + Dt * PhysicsStepsPerFrame

\* The outcomes of t >= trigger on the program's doubles: the grid decides
\* it unless the two are equal there, where the rounding of the sums does.
Reaches(t, trigger) ==
    IF t > trigger THEN {TRUE}
    ELSE IF t = trigger THEN {TRUE, FALSE}
    ELSE {FALSE}

\* Whether the timed impulse fires in this frame (the outcomes of line 296).
TimedImpulseDue_Repeats(t, applied, trigger) ==
    Reaches(TimeAfter(t, FALSE), trigger)

TimedImpulseDue_Stale(t, applied, trigger) ==
    IF applied THEN {FALSE} ELSE Reaches(t, trigger)

TimedImpulseDue(t, applied, trigger) ==
    IF applied THEN {FALSE} ELSE Reaches(TimeAfter(t, applied), trigger)

\* k sub-steps, each from the state the one before has left.
RECURSIVE StepTimes(_, _, _, _, _, _, _)
StepTimes(k, la, bs, sp, rpos, g, damp) ==
    IF k = 0 THEN [left_anchor |-> la, bodies |-> bs]
    ELSE CHOOSE r \in { StepTimes(k - 1, s.left_anchor, s.bodies, sp, rpos, g, damp) :
                          s \in {Step(la, bs, sp, rpos, g, damp)} } : TRUE

\* The left anchor the sub-steps of lines 299-301 integrate with: the one
\* the impulse check of lines 296-297 has left, not the one it found.
PhysicsAnchor_BeforeImpulse(found, left) == found

PhysicsAnchor(found, left) == left

\* Lines 293-301 once line 296 has compared to `due`.
Frame(due) ==
    /\ LET la == IF due THEN ApplyFirstSpringImpulse(left_anchor, anchor_lift_m)
                 ELSE left_anchor
           pa == PhysicsAnchor(left_anchor, la)
       IN /\ InRange(pa, bodies)
          /\ \E one \in {StepTimes(1, pa, bodies, springs, right_anchor_pos,
                                    space_gravity, space_damping)} :
               InRange(one.left_anchor, one.bodies)
          /\ \E all \in {StepTimes(PhysicsStepsPerFrame, pa, bodies, springs,
                                    right_anchor_pos, space_gravity, space_damping)} :
               /\ left_anchor' = all.left_anchor
               /\ bodies' = all.bodies
          /\ time_accum' = TimeAfter(time_accum, impulse_applied)
          /\ impulse_applied' = (impulse_applied \/ due)
    /\ exited' = ~running
    /\ ticks' = ticks + 1
    /\ last' = "tick"
    /\ UNCHANGED <<n_masses, lv_m, running, params, left_anchor_base,
                   right_anchor_pos, springs, events>>

Tick ==
    /\ ~exited
    /\ frames < MaxTicks
    /\ frames' = frames + 1
    /\ \E due \in TimedImpulseDue(time_accum, impulse_applied, impulse_time_s) :
         Frame(due)

Next ==
    \/ Quit
    \/ KeyG
    \/ Key1
    \/ Key2
    \/ Key3
    \/ Key4
    \/ Key5
    \/ Key6
    \/ KeyI
    \/ KeyR
    \/ Tick

Spec == Init /\ [][Next]_vars

\* ------------------------------------------- run, up to the timed impulse
\* The loop of run() as far as the impulse is pending, with no limit on the
\* events of keys 5 and 6 and on the frames: the single-mass chain of the
\* third configuration, whose trigger time is one key press below its
\* upper limit, and with key 5 lowering it at most MaxLowerings steps
\* below that limit. A reset is the event KeyR of above, so there are at
\* most MaxEvents of them. Each pass of the loop runs lines 293-301 once the
\* queue is empty, hence the weak fairness of the frame.
LiveInit ==
    /\ Init
    /\ n_masses = 1
    /\ impulse_time_s = 594

LiveEvent(name) ==
    /\ ~exited
    /\ last' = name
    /\ UNCHANGED <<n_masses, lv_m, exited, ticks, frames, events>>

LiveKey5 ==
    /\ LiveEvent("5")
    /\ impulse_time_s > ImpulseTimeLimit - 6 * MaxLowerings
    /\ SetImpulseTime(ImpulseTimeDown(impulse_time_s))

LiveKey6 ==
    /\ LiveEvent("6")
    /\ SetImpulseTime(ImpulseTimeUp(impulse_time_s))

LiveTick ==
    /\ ~exited
    /\ ~impulse_applied
    /\ UNCHANGED frames
    /\ \E due \in TimedImpulseDue(time_accum, impulse_applied, impulse_time_s) :
         Frame(due)

LiveNext ==
    \/ LiveKey5
    \/ LiveKey6
    \/ KeyR
    \/ LiveTick

LiveSpec == LiveInit /\ [][LiveNext]_vars /\ WF_vars(LiveTick)

\* ================================================================== claims
\* Everything the program itself holds. The rest records the run: ticks counts
\* the frames since construction or the last reset, frames all frames,
\* events the events handled, and last names the latest operation.
program == <<running, exited, params, chain, time_accum, impulse_applied>>

\* A step that handled the event of the named key.
Handled(name) == last' = name /\ events' = events + 1

\* C1: key i while the impulse is pending moves the left anchor straight up
\* (x unchanged, y smaller) by the lift amount configured at that moment, in
\* pixels, and sets impulse_applied; key i once the impulse is applied
\* changes nothing of the program's state.
C1_TriggerImpulseNow ==
    [][Handled("i") =>
        IF ~impulse_applied
          THEN /\ left_anchor'.position[1] = left_anchor.position[1]
               /\ left_anchor'.position[2] =
                    left_anchor.position[2] - anchor_lift_m * PIXELS_PER_METER
               /\ impulse_applied'
          ELSE UNCHANGED program]_vars

\* C1 witness: after key 4 raised the shipped lift of 0.5 m to 0.55 m, key i
\* has put the anchor 27.5 px above its base.
C1_Witness ==
    /\ last = "i"
    /\ impulse_applied
    /\ anchor_lift_m = ANCHOR_LIFT_M + 5
    /\ left_anchor.position = <<left_anchor_base[1], left_anchor_base[2] - 2750>>

\* A step that ran the rest of a frame (lines 293-301).
Ticked == last' = "tick" /\ ticks' = ticks + 1

\* The left anchor displaced from p by the lift amount l.
Lifted(p, l) == <<p[1], p[2] - l * PIXELS_PER_METER>>

\* C2: while the impulse is pending the left anchor is at its base; a tick
\* whose accumulated elapsed time stays below the trigger time leaves it
\* there, the first tick whose accumulated elapsed time reaches the trigger
\* time displaces it by the lift amount and applies the impulse, and no
\* tick after that moves the anchor. (The tick whose exact elapsed time
\* equals the trigger time is the one that reaches it or the one before,
\* as the program's sums round: it fires or it leaves the impulse pending.)
C2_TimedFiring ==
    /\ [](~impulse_applied => left_anchor.position = left_anchor_base)
    /\ [][Ticked =>
           LET Fired == /\ left_anchor'.position =
                             Lifted(left_anchor_base, anchor_lift_m)
                        /\ impulse_applied'
               Waited == left_anchor' = left_anchor /\ ~impulse_applied'
               after == time_accum + PhysicsStepsPerFrame * Dt
           IN IF impulse_applied
                THEN left_anchor' = left_anchor /\ impulse_applied'
              ELSE IF after < impulse_time_s THEN Waited
              ELSE IF after > impulse_time_s THEN Fired
              ELSE Fired \/ Waited]_vars

\* C2 witness: no event at all; the impulse fired in the tick that reached
\* the trigger time, and a later tick found the anchor where the impulse
\* had put it.
C2_Witness ==
    /\ events = 0
    /\ last = "tick"
    /\ impulse_applied
    /\ impulse_time_s > PhysicsStepsPerFrame * Dt
    /\ time_accum = impulse_time_s
    /\ ticks * PhysicsStepsPerFrame * Dt > time_accum
    /\ anchor_lift_m > 0
    /\ left_anchor.position = Lifted(left_anchor_base, anchor_lift_m)

\* C3: once impulse_applied is true, every step other than a reset keeps it
\* true and leaves the left anchor where it is, and a reset makes it false
\* with the anchor back at its base; as the anchor is at its base while the
\* impulse is pending, it is displaced at most once between two resets.
C3_AppliedUntilReset ==
    /\ [](~impulse_applied => left_anchor.position = left_anchor_base)
    /\ [][impulse_applied =>
           IF Handled("r")
             THEN ~impulse_applied' /\ left_anchor'.position = left_anchor_base'
             ELSE impulse_applied' /\ left_anchor' = left_anchor]_vars

\* C3 witness: key i came first in the frame whose tick would have reached
\* the trigger time; after that tick the anchor is lifted once.
C3_Witness ==
    /\ last = "tick"
    /\ events = 1
    /\ impulse_applied
    /\ time_accum < impulse_time_s
    /\ time_accum + PhysicsStepsPerFrame * Dt >= impulse_time_s
    /\ ticks * PhysicsStepsPerFrame * Dt = time_accum + PhysicsStepsPerFrame * Dt
    /\ anchor_lift_m > 0
    /\ left_anchor.position = Lifted(left_anchor_base, anchor_lift_m)

\* C4: right after a reset there are N bodies and N+1 springs, body i is at
\* its construction-time position (start_x + (i+1) spans on the baseline)
\* with zero velocity, the left anchor is at its base position, the elapsed
\* time is zero and the impulse is pending.
C4_ResetRestores ==
    last = "r" =>
        /\ Len(bodies) = n_masses
        /\ Len(springs) = n_masses + 1
        /\ \A j \in 1..Len(bodies) :
             /\ bodies[j].position =
                  <<START_X + j * lv_m * PIXELS_PER_METER, HEIGHT \div 2>>
             /\ bodies[j].velocity = <<0, 0>>
        /\ left_anchor.position = <<START_X, HEIGHT \div 2>>
        /\ left_anchor.position = left_anchor_base
        /\ time_accum = 0
        /\ ~impulse_applied

\* C4 witness: the reset is the only event of the run and came after the
\* fourth frame; the trigger time of 0.05 s had fired the impulse by then.
C4_Witness ==
    /\ last = "r"
    /\ events = 1
    /\ frames >= 4
    /\ impulse_time_s = 6
    /\ anchor_lift_m > 0
    /\ ~impulse_applied
    /\ time_accum = 0

\* The endpoints of springs[i] of the source.
Connects(i, a, b) == springs[i + 1].a = a /\ springs[i + 1].b = b

\* C5: in every reachable state there are N bodies and N+1 springs,
\* spring[0] joins the left anchor and body[0], spring[i] joins body[i-1]
\* and body[i] for 1 <= i < N, and spring[N] joins body[N-1] and the right
\* wall anchor; a step other than a reset changes neither the springs nor
\* the number of bodies.
C5_Topology ==
    /\ [](/\ n_masses >= 1
          /\ Len(bodies) = n_masses
          /\ Len(springs) = n_masses + 1
          /\ Connects(0, [kind |-> "left_anchor", index |-> 0],
                         [kind |-> "body", index |-> 0])
          /\ \A i \in 1..(n_masses - 1) :
               Connects(i, [kind |-> "body", index |-> i - 1],
                           [kind |-> "body", index |-> i])
          /\ Connects(n_masses, [kind |-> "body", index |-> n_masses - 1],
                                [kind |-> "right_anchor", index |-> 0]))
    /\ [][~Handled("r") =>
            springs' = springs /\ DOMAIN bodies' = DOMAIN bodies]_vars

\* C5 witness: a chain with an inner spring, rebuilt by a reset and then
\* moved by a tick with gravity on.
C5_Witness ==
    /\ n_masses >= 2
    /\ last = "tick"
    /\ ticks < frames
    /\ gravity_index = 1
    /\ bodies[1].velocity # <<0, 0>>
    /\ Len(springs) = n_masses + 1

\* C6: the global damping factor (the controller's and the one the space
\* integrates with) is in [0, 1] in every reachable state, and right after a
\* damping adjustment (key 1 or key 2) it is in [0, 1), that is below 1.0.
C6_DampingRange ==
    /\ 0 <= damping /\ damping <= UnitScale
    /\ 0 <= space_damping /\ space_damping <= UnitScale
    /\ last \in {"1", "2"} =>
         /\ damping < UnitScale
         /\ space_damping < UnitScale

\* C6 witness: from the shipped 1.0, a decrease to 0.99 and an increase that
\* the clamp held at 0.999.
C6_Witness ==
    /\ last = "2"
    /\ events = 2
    /\ damping = 999
    /\ space_damping = 999

\* C7: in every reachable state the lift amount is in [0, 2.0] m and the
\* trigger time in [0, 5.0] s.
C7_LiftAndTriggerRange ==
    /\ 0 <= anchor_lift_m /\ anchor_lift_m <= 2 * 100
    /\ 0 <= impulse_time_s /\ impulse_time_s <= 5 * StepsPerSecond

\* C7 witness: two increases of the lift amount from 1.95 m have saturated
\* at 2.0 m.
C7_Witness ==
    /\ last = "4"
    /\ events = 2
    /\ anchor_lift_m = 2 * 100
    /\ impulse_time_s = 5 * StepsPerSecond - 6

\* The simulated time of the frames since construction or the last reset.
FrameTime == ticks * PhysicsStepsPerFrame * Dt

\* C8 as stated: the elapsed time equals the number of ticks since
\* construction or the last reset times 2 dt, also after the impulse has
\* been applied.
C8_ElapsedIsFrameTime == time_accum = FrameTime

\* C8 as amended: a tick adds 2 dt to the elapsed time only while the
\* impulse is pending; so the elapsed time equals the frame time as long as
\* the impulse is pending, and once the impulse is applied it no longer
\* changes and is at most the frame time.
C8_ElapsedWhilePending ==
    /\ [](IF impulse_applied THEN time_accum <= FrameTime
                             ELSE time_accum = FrameTime)
    /\ [][Ticked =>
           time_accum' = IF impulse_applied THEN time_accum
                         ELSE time_accum + PhysicsStepsPerFrame * Dt]_vars

\* C8 witness: a tick after the impulse was applied; the elapsed time is
\* behind the frame time.
C8_Witness ==
    /\ last = "tick"
    /\ impulse_applied
    /\ time_accum > 0
    /\ time_accum < FrameTime

\* C9: the right anchor never moves; the left anchor moves only in a reset
\* or in the step that applies the impulse, and in the tick that applies it
\* the sub-steps that follow leave it exactly where the impulse put it.
C9_AnchorsImmune ==
    /\ [][right_anchor_pos' = right_anchor_pos]_vars
    /\ [][left_anchor' # left_anchor =>
            \/ Handled("r")
            \/ ~impulse_applied /\ impulse_applied']_vars
    /\ [][Ticked /\ ~impulse_applied /\ impulse_applied' =>
            left_anchor'.position = Lifted(left_anchor.position, anchor_lift_m)]_vars
    /\ [](left_anchor.velocity = <<0, 0>>)

\* C9 witness: gravity on, the impulse applied, the first body set in motion
\* by a tick, and the left anchor exactly one lift above its base.
C9_Witness ==
    /\ last = "tick"
    /\ gravity_index = 1
    /\ impulse_applied
    /\ anchor_lift_m > 0
    /\ bodies[1].velocity # <<0, 0>>
    /\ left_anchor.position = Lifted(left_anchor_base, anchor_lift_m)

\* Every body where _build_chain put it, with zero velocity.
AtRest ==
    \A j \in 1..Len(bodies) :
        /\ bodies[j].position = <<START_X + j * lv_m * PIXELS_PER_METER, HEIGHT \div 2>>
        /\ bodies[j].velocity = <<0, 0>>

ZeroNetForce ==
    \A j \in 1..Len(bodies) :
        NetPull([kind |-> "body", index |-> j - 1], 1, springs, left_anchor,
                bodies, right_anchor_pos) = <<0, 0>>

\* C10: with the initial spacing equal to the rest length, the chain is at
\* rest after it is built, a chain at rest under a pending impulse has zero
\* net force on every body, and a tick with gravity zero and damping factor
\* 1.0 that does not fire the impulse leaves every body's position and
\* velocity unchanged.
C10_AtRestSteadyState ==
    /\ [](lv_m = L0_M /\ last \in {"init", "r"} => AtRest)
    /\ [](lv_m = L0_M /\ AtRest /\ ~impulse_applied => ZeroNetForce)
    /\ [][(/\ Ticked
           /\ lv_m = L0_M
           /\ AtRest
           /\ space_gravity = <<0, 0>>
           /\ space_damping = UnitScale
           /\ ~impulse_applied') => bodies' = bodies]_vars

\* C10 witness: two ticks of such a chain, gravity off and damping 1.0, with
\* the impulse still pending and every body at rest.
C10_Witness ==
    /\ lv_m = L0_M
    /\ last = "tick"
    /\ ticks >= 2
    /\ ~impulse_applied
    /\ space_gravity = <<0, 0>>
    /\ space_damping = UnitScale
    /\ AtRest

\* C11: a reset leaves the gravity selection, the damping factor, the lift
\* amount and the trigger time as they were just before it, and the new
\* space integrates with that gravity selection and that damping factor.
C11_ResetKeepsParameters ==
    [][Handled("r") =>
        /\ gravity_index' = gravity_index
        /\ damping' = damping
        /\ anchor_lift_m' = anchor_lift_m
        /\ impulse_time_s' = impulse_time_s
        /\ space_gravity' = gravity_presets[gravity_index + 1]
        /\ space_damping' = damping]_vars

\* C11 witness: gravity was switched on, then the chain was reset; gravity
\* is still on, in the controller and in the new space.
C11_Witness ==
    /\ last = "r"
    /\ events = 2
    /\ gravity_index = 1
    /\ space_gravity = gravity_presets[2]
    /\ space_gravity # <<0, 0>>

\* The four setters' keys: g (gravity), 1 and 2 (damping), 3 and 4 (lift
\* amount), 5 and 6 (trigger time).
SetterHandled ==
    \E name \in {"g", "1", "2", "3", "4", "5", "6"} : Handled(name)

\* C12: a setter changes its own parameter only: it leaves the bodies'
\* positions and velocities, both anchors, the elapsed time, the impulse flag
\* and the other three parameters as they were; in particular a change of the
\* lift amount after the impulse was applied does not move the left anchor.
C12_SettersOnlySetParameters ==
    [][/\ SetterHandled => UNCHANGED <<chain, time_accum, impulse_applied, running>>
       /\ Handled("g") =>
            UNCHANGED <<damping, space_damping, anchor_lift_m, impulse_time_s>>
       /\ (Handled("1") \/ Handled("2")) =>
            UNCHANGED <<gravity_index, space_gravity, anchor_lift_m, impulse_time_s>>
       /\ (Handled("3") \/ Handled("4")) =>
            UNCHANGED <<gravity_index, space_gravity, damping, space_damping,
                        impulse_time_s>>
       /\ (Handled("5") \/ Handled("6")) =>
            UNCHANGED <<gravity_index, space_gravity, damping, space_damping,
                        anchor_lift_m>>]_vars

\* C12 witness: the impulse was applied by key i, then key 4 raised the lift
\* amount; the left anchor is still displaced by the amount it was lifted by.
C12_Witness ==
    /\ last = "4"
    /\ events = 2
    /\ impulse_applied
    /\ left_anchor.position = Lifted(left_anchor_base, anchor_lift_m - 5)
    /\ left_anchor.position # Lifted(left_anchor_base, anchor_lift_m)

\* The two gravity presets: off, and 9.81 m/s^2 in pixels, pointing down
\* the screen (positive y).
GravityOff == <<0, 0>>
GravityOn == <<0, 981 * PIXELS_PER_METER>>

\* C13: gravity is off after construction; it is always one of the two
\* presets; each toggle switches to the other preset; and a second toggle
\* gives back the gravity there was before the first.
C13_GravityToggle ==
    /\ [](/\ last = "init" => space_gravity = GravityOff /\ gravity_index = 0
          /\ space_gravity \in {GravityOff, GravityOn}
          /\ GravityOn[1] = 0 /\ GravityOn[2] > 0
          /\ LET once == ToggleGravityIndex(gravity_index)
                 twice == ToggleGravityIndex(once)
             IN /\ gravity_presets[once + 1] # space_gravity
                /\ gravity_presets[twice + 1] = space_gravity)
    /\ [][Handled("g") =>
            /\ space_gravity' # space_gravity
            /\ space_gravity' \in {GravityOff, GravityOn}
            /\ gravity_index' # gravity_index]_vars

\* C13 witness: key g twice in a row; gravity, off at construction, is off
\* again (the second toggle found it on, so the first had switched it on).
C13_Witness ==
    /\ last = "g"
    /\ events = 2
    /\ gravity_index = 0
    /\ space_gravity = GravityOff

\* The frames it takes the exact elapsed time to reach the upper limit of
\* the trigger time: 5.0 s at 1/60 s per frame.
LimitFrames == ImpulseTimeLimit \div (PhysicsStepsPerFrame * Dt)

\* C14, as stated: after LimitFrames (300) frames since construction or the
\* last reset the impulse has been applied.
C14_FiresWithinLimitFrames ==
    ticks >= LimitFrames => impulse_applied

\* C14: while frames keep coming, a pending impulse is applied unless a
\* reset comes first, however keys 5 and 6 set the trigger time: the trigger
\* time never exceeds 5.0 s, the elapsed time of a pending impulse is two
\* steps per frame since construction or the last reset, and the impulse is
\* applied after at most LimitFrames + 1 (301) such frames.
C14_ImpulseEventuallyApplied ==
    /\ ~impulse_applied ~> (impulse_applied \/ last = "r")
    /\ [](impulse_time_s <= ImpulseTimeLimit)
    /\ [](~impulse_applied => time_accum = ticks * PhysicsStepsPerFrame * Dt)
    /\ [](ticks >= LimitFrames + 1 => impulse_applied)

\* C14 witness: the trigger time was at its upper limit of 5.0 s, the 300th
\* frame left the impulse pending and the 301st applied it.
C14_Witness ==
    /\ last = "tick"
    /\ impulse_applied
    /\ impulse_time_s = ImpulseTimeLimit
    /\ ticks = LimitFrames + 1
    /\ time_accum > impulse_time_s
    /\ left_anchor.position = Lifted(left_anchor_base, anchor_lift_m)

\* C15: the gravity and the damping of the space are at every moment the
\* preset the gravity index selects and the controller's damping factor,
\* also right after a reset has replaced the space.
C15_SpaceParametersCurrent ==
    /\ space_gravity = gravity_presets[gravity_index + 1]
    /\ space_damping = damping

\* C15 witness: with a damping factor of 0.009, gravity was switched on and
\* the chain was reset; the new space has that gravity and that damping.
C15_Witness ==
    /\ last = "r"
    /\ events = 2
    /\ gravity_index = 1
    /\ space_gravity = GravityOn
    /\ damping = 9
    /\ damping # SPACE_DAMPING
    /\ space_damping = 9

\* C16: a frame runs after its events, so it finds the state they left; it
\* first adds to the elapsed time and checks the timed impulse, then runs
\* the sub-steps: the sub-steps of the frame in which the timed impulse
\* fires all integrate with the left anchor displaced, those of any other
\* frame with the anchor the events left. A pending impulse with trigger
\* time 0 fires in the next frame, and in the first frame after construction
\* or reset it finds the bodies as built: no sub-step has run before it.
C16_FrameOrder ==
    /\ [](ticks = 0 => /\ bodies = BuildBodies(n_masses, lv_m)
                       /\ time_accum = 0)
    /\ [][Ticked =>
           LET fires == ~impulse_applied /\ impulse_applied'
               seen == IF fires
                       THEN [left_anchor EXCEPT
                               !.position = Lifted(left_anchor_base, anchor_lift_m)]
                       ELSE left_anchor
               stepped == StepTimes(PhysicsStepsPerFrame, seen, bodies, springs,
                                    right_anchor_pos, space_gravity, space_damping)
           IN /\ ~impulse_applied =>
                   time_accum' = time_accum + PhysicsStepsPerFrame * Dt
              /\ fires => time_accum' >= impulse_time_s
              /\ (~impulse_applied /\ impulse_time_s = 0) => fires
              /\ left_anchor' = seen
              /\ bodies' = stepped.bodies]_vars

\* C16 witness: key 5 set the trigger time to 0 before the first frame of a
\* chain at rest; that frame fired the impulse, and its sub-steps have
\* moved the bodies, which in a chain at rest only a displaced anchor does.
C16_Witness ==
    /\ last = "tick"
    /\ ticks = 1
    /\ events = 1
    /\ impulse_time_s = 0
    /\ impulse_applied
    /\ time_accum = PhysicsStepsPerFrame * Dt
    /\ lv_m = L0_M
    /\ space_gravity = GravityOff
    /\ anchor_lift_m > 0
    /\ left_anchor.position = Lifted(left_anchor_base, anchor_lift_m)
    /\ bodies # BuildBodies(n_masses, lv_m)
    /\ bodies[1].velocity # <<0, 0>>

====
